---------------------------- MODULE Spec2Model ----------------------------
(***************************************************************************)
(* ONI resource calculator: compute_requirements (oni_calc.py), the data   *)
(* catalogs (resources.py), the interactive project collector and the      *)
(* main_menu loop (oni_calc.py, utils.py).                                 *)
(*                                                                         *)
(* Python dicts are TLA+ functions: the key set is the DOMAIN.  Insertion  *)
(* order of a dict is modelled only where the code depends on it (the      *)
(* order in which interactive_create_project prompts for the buildings).   *)
(***************************************************************************)
EXTENDS Integers, Sequences, FiniteSets, TLC

VARIABLES
    FOODS,      \* resources.FOODS, the module-level food dict
    BUILDINGS,  \* resources.BUILDINGS, the module-level building dict
    requests,   \* the calls a caller makes to compute_requirements, in order
    results,    \* the outcome of each call made so far, in order
    stdin,      \* interactive_create_project: the lines the operator types
    created,    \* interactive_create_project: its outcome
    pc,         \* main_menu: position in the loop body
    choice,     \* main_menu: local `choice`
    proj,       \* main_menu: local `proj`
    req,        \* main_menu: local `req`
    save,       \* main_menu: local `save`
    name,       \* main_menu: local `name`
    got,        \* main_menu: where this iteration's project came from
    shown,      \* main_menu: the summary was computed and printed in this iteration
    wrote       \* main_menu: files written in this iteration

vars == <<FOODS, BUILDINGS, requests, results, stdin, created,
          pc, choice, proj, req, save, name, got, shown, wrote>>

catalogs == <<FOODS, BUILDINGS>>
calcVars == <<requests, results>>
createVars == <<stdin, created>>
menuVars == <<pc, choice, proj, req, save, name, got, shown, wrote>>

-----------------------------------------------------------------------------
(* Bounds of the model.                                                    *)

MaxDup == 2
MaxDays == 2
MaxCount == 2
PairMaxDup == 1
PairMaxCount == 1

-----------------------------------------------------------------------------
(* resources.py                                                            *)

FOODS_at_import ==
    [mushroom |-> [name |-> "Mushroom", calories |-> 120, unit |-> "kg", desc |-> "Raw food"],
     grilled_mushroom |-> [name |-> "Grilled Mushroom", calories |-> 400, unit |-> "plate", desc |-> "Cooked meal"],
     basic_meal |-> [name |-> "Basic Meal", calories |-> 1200, unit |-> "plate", desc |-> "Full meal"]]

BUILDINGS_at_import ==
    [simple_bed |-> [name |-> "Simple Cot", iron_ore |-> 20],
     oxygen_generator |-> [name |-> "O2 Generator", iron_ore |-> 50, algae |-> 10],
     water_pump |-> [name |-> "Water Pump", iron_ore |-> 40]]

\* The insertion order of BUILDINGS, which BUILDINGS.items() follows.
BUILDINGS_order == <<"simple_bed", "oxygen_generator", "water_pump">>

sample_project ==
    [duplicants |-> 3, days |-> 7, food_choice |-> "basic_meal",
     buildings |-> [simple_bed |-> 3, oxygen_generator |-> 1]]

-----------------------------------------------------------------------------
(* oni_calc.compute_requirements                                           *)

calories_per_duplicant_per_day == 1200

\* dict.get(key, default)
Get(d, key, default) == IF key \in DOMAIN d THEN d[key] ELSE default

\* units_needed: floor division, plus one when there is a remainder.
\* Variant: the increment without the remainder test.
units_unconditional_increment(total_calories_needed, calories_per_unit) ==
    (total_calories_needed \div calories_per_unit) + 1

units_needed(total_calories_needed, calories_per_unit) ==
    LET q == total_calories_needed \div calories_per_unit
    IN  IF total_calories_needed % calories_per_unit # 0 THEN q + 1 ELSE q

\* Variant: a dict shared between calls (never reset).
materials_left_from_last_call ==
    IF results # << >> /\ results[Len(results)].kind = "return"
    THEN results[Len(results)].value.materials
    ELSE << >>

\* `materials = {}`: a fresh dict at every call.
materials_fresh == << >>

\* Variants of the accumulation: zero contributions dropped; the count
\* left out; the count off by one.
add_skipping_zero(materials, res_key, qty, count) ==
    IF qty * count = 0 THEN materials
    ELSE [k \in DOMAIN materials \cup {res_key} |->
             IF k = res_key THEN Get(materials, res_key, 0) + qty * count
             ELSE materials[k]]

add_ignoring_count(materials, res_key, qty, count) ==
    [k \in DOMAIN materials \cup {res_key} |->
        IF k = res_key THEN Get(materials, res_key, 0) + qty
        ELSE materials[k]]

add_one_building_too_many(materials, res_key, qty, count) ==
    [k \in DOMAIN materials \cup {res_key} |->
        IF k = res_key THEN Get(materials, res_key, 0) + qty * (count + 1)
        ELSE materials[k]]

\* materials[res_key] = materials.get(res_key, 0) + qty * count
add_material(materials, res_key, qty, count) ==
    [k \in DOMAIN materials \cup {res_key} |->
        IF k = res_key THEN Get(materials, res_key, 0) + qty * count
        ELSE materials[k]]

\* The inner loop: for res_key, qty in info.items(), skipping "name".
RECURSIVE add_building(_, _, _, _)
add_building(materials, info, keys, count) ==
    IF keys = {} THEN materials
    ELSE LET res_key == CHOOSE k \in keys : TRUE
             rest == keys \ {res_key}
         IN  IF res_key = "name"
             THEN add_building(materials, info, rest, count)
             ELSE add_building(add_material(materials, res_key, info[res_key], count),
                               info, rest, count)

\* Python's None, as a value comparable with a dict.
None == [None |-> TRUE]

\* info = BUILDINGS.get(bkey)
lookup_building(bkey) == Get(BUILDINGS, bkey, None)

\* `if not info`: true for None (an unknown key) and for an empty dict.
is_falsy(info) == info = None \/ DOMAIN info = {}

RECURSIVE material_totals(_, _)

\* Variant: `break` on an unknown building key.
break_on_unknown(materials, rest) == materials

\* `continue` on an unknown building key: the loop goes on with the rest.
skip_unknown(materials, rest) == material_totals(materials, rest)

\* The outer loop: for bkey, count in buildings.items().  `items` is the
\* sequence of <<bkey, count>> pairs in the dict's insertion order.
material_totals(materials, items) ==
    IF items = << >> THEN materials
    ELSE LET bkey == Head(items)[1]
             count == Head(items)[2]
             info == lookup_building(bkey)
         IN  IF is_falsy(info)
             THEN skip_unknown(materials, Tail(items))
             ELSE material_totals(add_building(materials, info, DOMAIN info, count),
                                  Tail(items))

Raise(error, message) == [kind |-> "raise", error |-> error, message |-> message]

Return(value) == [kind |-> "return", value |-> value]

\* The items of a dict with key -> count mapping f and insertion order `order`.
Items(f, order) == [i \in 1..Len(order) |-> <<order[i], f[order[i]]>>]

\* Every insertion order a dict with key set S can have.
Orders(S) ==
    {o \in [1..Cardinality(S) -> S] : \A i, j \in 1..Cardinality(S) : i # j => o[i] # o[j]}

AnyItems(f) == Items(f, CHOOSE o \in Orders(DOMAIN f) : TRUE)

\* Lines 50-80: the body after the food check.  `buildings` is given by
\* its items.
requirements(duplicants, days, food_key, buildings) ==
    LET food_info == FOODS[food_key]
        calories_per_unit == food_info.calories
        total_calories_needed == duplicants * days * calories_per_duplicant_per_day
    IN  Return([duplicants |-> duplicants,
                days |-> days,
                food |-> [key |-> food_key,
                          units |-> units_needed(total_calories_needed, calories_per_unit),
                          unit |-> food_info.unit],
                materials |-> material_totals(materials_fresh, buildings)])

\* Variants: an unknown food replaced by 'basic_meal'; the building loop
\* skipped when no food is needed.
compute_defaulting_food(duplicants, days, food_key, buildings) ==
    IF food_key \notin DOMAIN FOODS
    THEN requirements(duplicants, days, "basic_meal", buildings)
    ELSE requirements(duplicants, days, food_key, buildings)

compute_skipping_buildings_without_food(duplicants, days, food_key, buildings) ==
    IF food_key \notin DOMAIN FOODS
    THEN Raise("ValueError", <<"Unknown food: ", food_key>>)
    ELSE IF duplicants * days = 0
    THEN requirements(duplicants, days, food_key, << >>)
    ELSE requirements(duplicants, days, food_key, buildings)

compute_requirements(duplicants, days, food_key, buildings) ==
    IF food_key \notin DOMAIN FOODS
    THEN Raise("ValueError", <<"Unknown food: ", food_key>>)
    ELSE requirements(duplicants, days, food_key, buildings)

\* main_menu's call: compute_requirements(proj['duplicants'], proj['days'],
\* proj['food_choice'], proj.get('buildings', {})).
request_of(project) ==
    [duplicants |-> project.duplicants, days |-> project.days,
     food_key |-> project.food_choice,
     buildings |-> Get(project, "buildings", << >>)]

-----------------------------------------------------------------------------
(* A caller of compute_requirements.                                       *)

UnknownFood == "does_not_exist"
UnknownBuilding == "rocket_silo"

FoodKeys == DOMAIN FOODS_at_import \cup {UnknownFood}
BuildingKeys == DOMAIN BUILDINGS_at_import \cup {UnknownBuilding}

CountMaps(keys, max) == UNION {[S -> 0..max] : S \in SUBSET keys}

Requests ==
    [duplicants : 0..MaxDup, days : 0..MaxDays, food_key : FoodKeys,
     buildings : CountMaps(BuildingKeys, MaxCount)]
    \cup {request_of(sample_project)}

PairRequests ==
    [duplicants : 0..PairMaxDup, days : 0..PairMaxDup,
     food_key : {"basic_meal", "mushroom", UnknownFood},
     buildings : CountMaps({"simple_bed", "oxygen_generator"}, PairMaxCount)]

\* A local variable that is not bound yet.
Unbound == [unbound |-> TRUE]

IdleCreate == stdin = << >> /\ created = [kind |-> "idle"]

IdleMenu ==
    /\ pc = "idle" /\ choice = << >> /\ proj = Unbound /\ req = Unbound
    /\ save = << >> /\ name = << >> /\ got = "none" /\ shown = FALSE /\ wrote = {}

Init ==
    /\ FOODS = FOODS_at_import
    /\ BUILDINGS = BUILDINGS_at_import
    /\ requests \in {<<r>> : r \in Requests}
    /\ results = << >>
    /\ IdleCreate
    /\ IdleMenu

InitPair ==
    /\ FOODS = FOODS_at_import
    /\ BUILDINGS = BUILDINGS_at_import
    /\ requests \in {<<r, s>> : r \in PairRequests, s \in PairRequests}
    /\ results = << >>
    /\ IdleCreate
    /\ IdleMenu

\* One call: the arguments are the caller's objects, the outcome is what the
\* call returns or raises; the call assigns no global and no argument.  The
\* caller's dict may have its keys in any insertion order.
Call ==
    /\ Len(results) < Len(requests)
    /\ LET r == requests[Len(results) + 1]
       IN  \E order \in Orders(DOMAIN r.buildings) :
               results' = Append(results,
                   compute_requirements(r.duplicants, r.days, r.food_key,
                                        Items(r.buildings, order)))
    /\ UNCHANGED <<catalogs, requests, createVars, menuVars>>

Next == Call

Spec == Init /\ [][Next]_vars

SpecPair == InitPair /\ [][Next]_vars


-----------------------------------------------------------------------------
(* utils.safe_int and oni_calc.interactive_create_project.                 *)
(* A typed line is a sequence of characters (a word the model never looks  *)
(* into, such as a food key, is one element).                              *)

Whitespace == {" "}

Digits == <<"0", "1", "2", "3", "4", "5", "6", "7", "8", "9">>

IsDigit(c) == \E d \in 1..Len(Digits) : Digits[d] = c

DigitValue(c) == (CHOOSE d \in 1..Len(Digits) : Digits[d] = c) - 1

\* str.strip()
RECURSIVE StripLeft(_)
StripLeft(text) ==
    IF text # << >> /\ Head(text) \in Whitespace THEN StripLeft(Tail(text)) ELSE text

RECURSIVE StripRight(_)
StripRight(text) ==
    IF text # << >> /\ text[Len(text)] \in Whitespace
    THEN StripRight(SubSeq(text, 1, Len(text) - 1))
    ELSE text

Strip(text) == StripRight(StripLeft(text))

\* str.lower(), on the letters the model types.
Lower(text) == [i \in 1..Len(text) |-> IF text[i] = "Y" THEN "y" ELSE text[i]]

RECURSIVE DecimalValue(_)
DecimalValue(digits) ==
    IF digits = << >> THEN 0
    ELSE 10 * DecimalValue(SubSeq(digits, 1, Len(digits) - 1))
         + DigitValue(digits[Len(digits)])

\* int(text): surrounding whitespace is dropped, then an optional sign and
\* at least one digit; anything else is a ValueError.
int(text) ==
    LET s == Strip(text)
        signed == s # << >> /\ s[1] \in {"-", "+"}
        body == IF signed THEN Tail(s) ELSE s
    IN  IF body = << >> \/ \E i \in 1..Len(body) : ~IsDigit(body[i])
        THEN Raise("ValueError", text)
        ELSE Return(IF signed /\ s[1] = "-" THEN 0 - DecimalValue(body)
                    ELSE DecimalValue(body))

\* An input() call at end of input.
EOFError == Raise("EOFError", << >>)

\* safe_int(prompt) with default=None: reads lines until one converts.
\* Returns the value and the lines left unread.
RECURSIVE safe_int(_)
safe_int(lines) ==
    IF lines = << >> THEN EOFError
    ELSE LET r == int(Head(lines))
         IN  IF r.kind = "return"
             THEN [kind |-> "return", value |-> r.value, rest |-> Tail(lines)]
             ELSE safe_int(Tail(lines))

\* food_choice = input(...).strip(); if food_choice not in FOODS: 'basic_meal'
food_choice_of(line) ==
    LET s == Strip(line)
    IN  IF Len(s) = 1 /\ s[1] \in DOMAIN FOODS THEN s[1] ELSE "basic_meal"

\* cnt = input(...).strip(); cnt = int(cnt) if cnt else 0; ValueError -> 0
count_of(line) ==
    LET cnt == Strip(line)
    IN  IF cnt = << >> THEN 0
        ELSE IF int(cnt).kind = "return" THEN int(cnt).value ELSE 0

\* buildings[bkey] = cnt
set_item(d, key, value) ==
    [k \in DOMAIN d \cup {key} |-> IF k = key THEN value ELSE d[k]]

\* The loop over BUILDINGS.items(): one line per building, kept `if cnt`.
RECURSIVE read_building_counts(_, _, _)
read_building_counts(lines, bkeys, buildings) ==
    IF bkeys = << >> THEN [kind |-> "return", value |-> buildings, rest |-> lines]
    ELSE IF lines = << >> THEN EOFError
    ELSE LET cnt == count_of(Head(lines))
         IN  read_building_counts(
                 Tail(lines), Tail(bkeys),
                 IF cnt # 0 THEN set_item(buildings, Head(bkeys), cnt) ELSE buildings)

interactive_create_project(lines) ==
    LET dup == safe_int(lines)
    IN  IF dup.kind = "raise" THEN dup
        ELSE LET days == safe_int(dup.rest)
             IN  IF days.kind = "raise" THEN days
                 ELSE IF days.rest = << >> THEN EOFError
                 ELSE LET food_choice == food_choice_of(Head(days.rest))
                          buildings == read_building_counts(
                                           Tail(days.rest), BUILDINGS_order, << >>)
                      IN  IF buildings.kind = "raise" THEN buildings
                          ELSE [kind |-> "return",
                                value |-> [duplicants |-> dup.value,
                                           days |-> days.value,
                                           food_choice |-> food_choice,
                                           buildings |-> buildings.value],
                                rest |-> buildings.rest]

\* What the operator may type at a number prompt, at the food prompt.
NumberLines == {<<"0">>, <<" ", "2", " ">>, <<"-", "1">>, <<"x">>, << >>}
FoodLines == {<<"mushroom">>, <<" ", "basic_meal", " ">>, <<"pizza">>, << >>}

\* One or two lines typed at a safe_int prompt.
Attempts == {<<l>> : l \in NumberLines} \cup {<<k, l>> : k \in {<<"x">>, << >>}, l \in NumberLines}

CreateInputs ==
    {a \o b \o <<f>> \o c :
        a \in Attempts, b \in Attempts, f \in FoodLines, c \in [1..3 -> NumberLines]}

InitCreate ==
    /\ FOODS = FOODS_at_import
    /\ BUILDINGS = BUILDINGS_at_import
    /\ requests = << >> /\ results = << >>
    /\ stdin \in CreateInputs
    /\ created = [kind |-> "pending"]
    /\ IdleMenu

\* One run of interactive_create_project on the typed lines.
Create ==
    /\ created.kind = "pending"
    /\ created' = interactive_create_project(stdin)
    /\ stdin' = IF created'.kind = "return" THEN created'.rest ELSE << >>
    /\ UNCHANGED <<catalogs, calcVars, menuVars>>

NextCreate == Create

SpecCreate == InitCreate /\ [][NextCreate]_vars

-----------------------------------------------------------------------------
(* oni_calc.main_menu, with utils.load_project / save_project and          *)
(* oni_calc.save_summary_csv as the file system lets them behave.          *)

\* What the operator may type at the menu, at the save and name prompts.
MenuLines == {<<"1">>, <<"2">>, <<"3">>, <<"4">>, <<" ", "4", " ">>, <<"9">>, << >>}
AnswerLines == {<<"y">>, <<"Y">>, <<" ", "y", " ">>, <<"n">>, << >>, <<"y", "e", "s">>}
NameLines == {<<"base">>, << >>, <<" ">>}

\* The lines typed during option 1.
MenuCreateInputs ==
    {<<d, <<"1">>, f>> \o c :
        d \in {<<"2">>, <<"-", "1">>}, f \in {<<"mushroom">>, <<"pizza">>},
        c \in [1..3 -> {<<"1">>, << >>}]}
    \cup {<<<<"x">>, <<"2">>, <<"1">>>>}

\* What json.load may return for a file that exists and parses.
LoadableProjects ==
    {sample_project,
     [duplicants |-> 1, days |-> 2, food_choice |-> UnknownFood,
      buildings |-> [water_pump |-> 1]],
     [duplicants |-> 2, days |-> 1, food_choice |-> "mushroom"],
     [duplicants |-> 2, food_choice |-> "mushroom", buildings |-> [simple_bed |-> 1]],
     [not_a_dict |-> TRUE]}

\* utils.time_stamp()
time_stamp == <<"%Y%m%d_%H%M%S">>

InitMenu ==
    /\ FOODS = FOODS_at_import
    /\ BUILDINGS = BUILDINGS_at_import
    /\ requests = << >> /\ results = << >>
    /\ IdleCreate
    /\ pc = "menu" /\ choice = << >> /\ proj = Unbound /\ req = Unbound
    /\ save = << >> /\ name = << >> /\ got = "none" /\ shown = FALSE /\ wrote = {}

\* `choice = input("> ").strip()` at the top of the loop body; a new
\* iteration has obtained, shown and written nothing yet.
ReadChoice(c) ==
    /\ pc = "menu"
    /\ \E line \in MenuLines : Strip(line) = c /\ choice' = c
    /\ shown' = FALSE
    /\ wrote' = {}

\* Variant: no `continue`.
falls_through_to_compute == "compute"

\* Where the loop goes after `continue` (a failed load, an unknown option).
after_continue == "menu"

\* Variant: the save error is not caught.
stops_on_save_error == "crashed"

\* Where the loop goes after a save error was caught.
after_save_error == "menu"

\* Option 1: proj = interactive_create_project()
ChooseCreate ==
    /\ ReadChoice(<<"1">>)
    /\ \E lines \in MenuCreateInputs :
           LET r == interactive_create_project(lines)
           IN  IF r.kind = "return"
               THEN proj' = r.value /\ got' = "create" /\ pc' = "compute"
               ELSE proj' = proj /\ got' = "none" /\ pc' = "crashed"
    /\ UNCHANGED <<catalogs, calcVars, createVars, req, save, name>>

\* Option 2, load_project(path) returns.
ChooseLoadOk ==
    /\ ReadChoice(<<"2">>)
    /\ \E loaded \in LoadableProjects : proj' = loaded
    /\ got' = "load"
    /\ pc' = "compute"
    /\ UNCHANGED <<catalogs, calcVars, createVars, req, save, name>>

\* Option 2, load_project(path) raises: the error is printed, `continue`.
ChooseLoadFails ==
    /\ ReadChoice(<<"2">>)
    /\ got' = "none"
    /\ pc' = after_continue
    /\ UNCHANGED <<catalogs, calcVars, createVars, proj, req, save, name>>

\* Option 3: proj = sample_project()
ChooseDemo ==
    /\ ReadChoice(<<"3">>)
    /\ proj' = sample_project
    /\ got' = "demo"
    /\ pc' = "compute"
    /\ UNCHANGED <<catalogs, calcVars, createVars, req, save, name>>

\* Option 4: break
ChooseQuit ==
    /\ ReadChoice(<<"4">>)
    /\ got' = "none"
    /\ pc' = "exited"
    /\ UNCHANGED <<catalogs, calcVars, createVars, proj, req, save, name>>

\* Anything else: "Unknown option", `continue`.
ChooseUnknown ==
    /\ \E c \in {Strip(line) : line \in MenuLines} \ {<<"1">>, <<"2">>, <<"3">>, <<"4">>} :
           ReadChoice(c)
    /\ got' = "none"
    /\ pc' = after_continue
    /\ UNCHANGED <<catalogs, calcVars, createVars, proj, req, save, name>>

\* req = compute_requirements(proj['duplicants'], proj['days'],
\* proj['food_choice'], proj.get('buildings', {})), then the summary is
\* printed.  A missing key or an unknown food raises out of main_menu.
ComputeAndShow ==
    /\ pc = "compute"
    /\ IF {"duplicants", "days", "food_choice"} \subseteq DOMAIN proj
       THEN LET r == request_of(proj)
                out == compute_requirements(r.duplicants, r.days, r.food_key,
                                            AnyItems(r.buildings))
            IN  IF out.kind = "return"
                THEN req' = out.value /\ shown' = TRUE /\ pc' = "ask_save"
                ELSE req' = req /\ shown' = shown /\ pc' = "crashed"
       ELSE req' = req /\ shown' = shown /\ pc' = "crashed"
    /\ UNCHANGED <<catalogs, calcVars, createVars, choice, proj, save, name, got, wrote>>

\* save = input("Save project and summary? (y/N): ").strip().lower()
AskSave ==
    /\ pc = "ask_save"
    /\ \E line \in AnswerLines : save' = Lower(Strip(line))
    /\ pc' = IF save' = <<"y">> THEN "ask_name" ELSE "menu"
    /\ UNCHANGED <<catalogs, calcVars, createVars, choice, proj, req, name, got, shown, wrote>>

\* name = input(...).strip(); if not name: name = time_stamp()
AskName ==
    /\ pc = "ask_name"
    /\ \E line \in NameLines :
           name' = IF Strip(line) = << >> THEN time_stamp ELSE Strip(line)
    /\ pc' = "save_project"
    /\ UNCHANGED <<catalogs, calcVars, createVars, choice, proj, req, save, got, shown, wrote>>

\* save_project(json_path, proj) inside the try: it writes the file, or
\* raises and the except clause prints the error.
SaveProject ==
    /\ pc = "save_project"
    /\ \/ wrote' = wrote \cup {<<name, ".json">>} /\ pc' = "save_csv"
       \/ wrote' = wrote /\ pc' = after_save_error
    /\ UNCHANGED <<catalogs, calcVars, createVars, choice, proj, req, save, name, got, shown>>

\* save_summary_csv(csv_path, req) inside the same try.
SaveSummaryCsv ==
    /\ pc = "save_csv"
    /\ \/ wrote' = wrote \cup {<<name, "_summary.csv">>} /\ pc' = "menu"
       \/ wrote' = wrote /\ pc' = after_save_error
    /\ UNCHANGED <<catalogs, calcVars, createVars, choice, proj, req, save, name, got, shown>>

\* input() at end of input raises EOFError out of main_menu.
InputEOF ==
    /\ pc \in {"menu", "ask_save", "ask_name"}
    /\ pc' = "crashed"
    /\ UNCHANGED <<catalogs, calcVars, createVars, choice, proj, req, save, name, got, shown, wrote>>

NextMenu ==
    \/ ChooseCreate
    \/ ChooseLoadOk
    \/ ChooseLoadFails
    \/ ChooseDemo
    \/ ChooseQuit
    \/ ChooseUnknown
    \/ ComputeAndShow
    \/ AskSave
    \/ AskName
    \/ SaveProject
    \/ SaveSummaryCsv
    \/ InputEOF

SpecMenu == InitMenu /\ [][NextMenu]_vars

-----------------------------------------------------------------------------
(* Properties of compute_requirements.                                     *)

Made == 1..Len(results)

Returned(i) == i \in Made /\ results[i].kind = "return"

KnownFood(i) == requests[i].food_key \in DOMAIN FOODS_at_import

CatalogBuildings(i) == DOMAIN requests[i].buildings \cap DOMAIN BUILDINGS_at_import

MaterialsOf(bkey) == DOMAIN BUILDINGS_at_import[bkey] \ {"name"}

RECURSIVE SumOver(_, _, _)
SumOver(bkeys, buildings, m) ==
    IF bkeys = {} THEN 0
    ELSE LET b == CHOOSE k \in bkeys : TRUE
         IN  (IF m \in MaterialsOf(b) THEN BUILDINGS_at_import[b][m] * buildings[b] ELSE 0)
             + SumOver(bkeys \ {b}, buildings, m)

Restrict(f, S) == [k \in DOMAIN f \cap S |-> f[k]]

\* C1: for a known food and non-negative duplicants and days, the returned
\* food unit count u is the smallest integer with
\* u * caloriesPerUnit >= duplicants * days * 1200.
C1_UnitsAreCeiling ==
    \A i \in Made :
        KnownFood(i) =>
            /\ Returned(i)
            /\ LET u == results[i].value.food.units
                   c == FOODS_at_import[requests[i].food_key].calories
                   t == requests[i].duplicants * requests[i].days * 1200
               IN  u * c >= t /\ (u - 1) * c < t

C1_Witness ==
    \E i \in Made :
        /\ requests[i] = request_of(sample_project)
        /\ Returned(i)
        /\ results[i].value.food.units = 21

\* C2: a food identifier that is not in the food catalog makes the call
\* raise the unknown-food error; the outcome carries no result at all,
\* whatever the other arguments are.
C2_UnknownFoodRaises ==
    \A i \in Made :
        ~KnownFood(i) =>
            /\ results[i].kind = "raise"
            /\ results[i].error = "ValueError"
            /\ "value" \notin DOMAIN results[i]

C2_Witness ==
    \E i \in Made :
        /\ requests[i].food_key = UnknownFood
        /\ requests[i].duplicants > 0 /\ requests[i].days > 0
        /\ \E b \in CatalogBuildings(i) : requests[i].buildings[b] > 0
        /\ results[i].kind = "raise"

\* C3: an unknown building identifier is ignored: the call returns (for a
\* known food) and its material totals are those of the same request with
\* the unknown identifiers removed.
C3_UnknownBuildingIgnored ==
    \A i \in Made :
        KnownFood(i) =>
            /\ Returned(i)
            /\ LET r == requests[i]
                   known == Restrict(r.buildings, DOMAIN BUILDINGS_at_import)
               IN  results[i].value.materials =
                       compute_requirements(r.duplicants, r.days, r.food_key,
                                            AnyItems(known)).value.materials
            /\ UnknownBuilding \notin DOMAIN results[i].value.materials

C3_Witness ==
    \E i \in Made :
        /\ Returned(i)
        /\ UnknownBuilding \in DOMAIN requests[i].buildings
        /\ requests[i].buildings[UnknownBuilding] > 0
        /\ CatalogBuildings(i) = DOMAIN BUILDINGS_at_import
        /\ \A b \in CatalogBuildings(i) : requests[i].buildings[b] > 0
        /\ results[i].value.materials.iron_ore > 0

\* C4: every material total is the sum over the requested catalog buildings
\* of per-unit quantity x count; the sample project gives iron_ore = 110 and
\* algae = 10; an empty building mapping gives empty totals.
C4_TotalsAreSums ==
    \A i \in Made :
        Returned(i) =>
            LET r == requests[i]
                mats == results[i].value.materials
            IN  /\ \A m \in DOMAIN mats :
                       mats[m] = SumOver(CatalogBuildings(i), r.buildings, m)
                /\ r = request_of(sample_project) =>
                       mats = [iron_ore |-> 110, algae |-> 10]
                /\ DOMAIN r.buildings = {} => mats = << >>

C4_Witness ==
    \E i \in Made :
        /\ Returned(i)
        /\ requests[i] = request_of(sample_project)
        /\ results[i].value.materials.iron_ore = 110
        /\ results[i].value.materials.algae = 10

\* C5 as stated: a material is a key of the totals only if some requested
\* building contributed a quantity > 0 to it (a building with count 0 adds
\* no key).
C5_KeysOnlyIfPositive ==
    \A i \in Made :
        Returned(i) =>
            \A m \in DOMAIN results[i].value.materials :
                \E b \in CatalogBuildings(i) :
                    /\ m \in MaterialsOf(b)
                    /\ BUILDINGS_at_import[b][m] * requests[i].buildings[b] > 0

\* C5 amended: a material is a key of the totals exactly when some requested
\* catalog building lists it, whatever that building's count; a building
\* with count 0 adds its materials as keys with a contribution of 0.
C5_KeysOfRequestedBuildings ==
    \A i \in Made :
        Returned(i) =>
            /\ DOMAIN results[i].value.materials =
                   UNION {MaterialsOf(b) : b \in CatalogBuildings(i)}
            /\ \A m \in DOMAIN results[i].value.materials :
                   (\A b \in CatalogBuildings(i) : requests[i].buildings[b] = 0)
                       => results[i].value.materials[m] = 0

C5_Witness ==
    \E i \in Made :
        /\ Returned(i)
        /\ requests[i].buildings = [simple_bed |-> 0]
        /\ results[i].value.materials = [iron_ore |-> 0]

\* Per-material sum of two material totals.
AddTotals(a, b) ==
    [m \in DOMAIN a \cup DOMAIN b |-> Get(a, m, 0) + Get(b, m, 0)]

\* C6: with duplicants = 0 or days = 0 the food unit count is 0, and two
\* calls with the same building mapping return the same material totals
\* whatever their duplicants, days and (known) food are.
C6_FoodAndBuildingsIndependent ==
    /\ \A i \in Made :
           (Returned(i) /\ (requests[i].duplicants = 0 \/ requests[i].days = 0))
               => results[i].value.food.units = 0
    /\ \A i, j \in Made :
           (Returned(i) /\ Returned(j) /\ requests[i].buildings = requests[j].buildings)
               => results[i].value.materials = results[j].value.materials

C6_Witness ==
    /\ Returned(1) /\ Returned(2)
    /\ requests[1].buildings = requests[2].buildings
    /\ requests[1].buildings = [simple_bed |-> 1, oxygen_generator |-> 1]
    /\ requests[1].duplicants = 0 /\ requests[1].food_key = "mushroom"
    /\ requests[2].duplicants = 1 /\ requests[2].days = 1
    /\ requests[2].food_key = "basic_meal"
    /\ results[1].value.food.units = 0 /\ results[2].value.food.units = 1
    /\ results[1].value.materials = [iron_ore |-> 70, algae |-> 10]

\* C7: for a catalog building A, the per-material sum of the totals for
\* {A: m} and for {A: n} equals the totals for {A: m + n}.
C7_TotalsAdditive ==
    \A i, j \in Made :
        \A A \in DOMAIN BUILDINGS_at_import :
            (/\ Returned(i) /\ Returned(j)
             /\ DOMAIN requests[i].buildings = {A}
             /\ DOMAIN requests[j].buildings = {A})
            => LET m == requests[i].buildings[A]
                   n == requests[j].buildings[A]
                   both == compute_requirements(0, 0, "basic_meal", <<<<A, m + n>>>>)
               IN  AddTotals(results[i].value.materials, results[j].value.materials)
                       = both.value.materials

C7_Witness ==
    /\ Returned(1) /\ Returned(2)
    /\ requests[1].buildings = [oxygen_generator |-> 1]
    /\ requests[2].buildings = [oxygen_generator |-> 1]
    /\ AddTotals(results[1].value.materials, results[2].value.materials)
           = [iron_ore |-> 100, algae |-> 20]

\* C8: a call changes neither catalog nor the caller's arguments nor an
\* earlier outcome, and two calls with identical inputs have identical
\* outcomes (returned value or raised error), whatever was called before.
C8_PureAndDeterministic ==
    /\ [][/\ FOODS' = FOODS
          /\ BUILDINGS' = BUILDINGS
          /\ requests' = requests
          /\ \A i \in Made : results'[i] = results[i]]_vars
    /\ [](\A i, j \in Made : requests[i] = requests[j] => results[i] = results[j])
    /\ [](FOODS = FOODS_at_import /\ BUILDINGS = BUILDINGS_at_import)

C8_Witness ==
    /\ Returned(1) /\ Returned(2)
    /\ requests[1] = requests[2]
    /\ requests[1].buildings = [simple_bed |-> 1, oxygen_generator |-> 1]
    /\ results[1] = results[2]
    /\ results[2].value.materials = [iron_ore |-> 70, algae |-> 10]

-----------------------------------------------------------------------------
(* Properties of interactive_create_project and main_menu.                 *)

ValidProject(p) ==
    /\ p.food_choice \in DOMAIN FOODS_at_import
    /\ p.duplicants >= 0
    /\ p.days >= 0
    /\ DOMAIN p.buildings \subseteq DOMAIN BUILDINGS_at_import
    /\ \A b \in DOMAIN p.buildings : p.buildings[b] >= 0

\* C9: whatever the operator types, the project interactive_create_project
\* returns is a valid project request: a catalog food, non-negative
\* duplicants and days, catalog buildings only, non-negative counts.
C9_CreatedProjectIsValid ==
    created.kind = "return" => ValidProject(created.value)

WroteJson == \E w \in wrote : w[2] = ".json"
WroteCsv == \E w \in wrote : w[2] = "_summary.csv"

SummaryOf(p) ==
    compute_requirements(request_of(p).duplicants, request_of(p).days,
                         request_of(p).food_key,
                         AnyItems(request_of(p).buildings))

\* C10: in main_menu, requirements are computed only for the project obtained
\* in the same iteration by option 1, a successful option 2 or option 3; a
\* failed load or an unknown option goes back to the menu with nothing
\* computed, shown or saved; files are written only after the summary was
\* computed and the operator answered 'y', the CSV only after the project
\* file; a save error is caught and the loop continues; the loop ends
\* normally only on option 4.
C10_MenuLoop ==
    /\ [](shown => /\ got \in {"create", "load", "demo"}
                   /\ SummaryOf(proj).kind = "return"
                   /\ req = SummaryOf(proj).value)
    /\ []((got = "create" => choice = <<"1">>)
          /\ (got = "load" => choice = <<"2">>)
          /\ (got = "demo" => choice = <<"3">> /\ proj = sample_project))
    /\ [](got = "none" => /\ pc \in {"menu", "exited", "crashed"}
                          /\ ~shown
                          /\ wrote = {})
    /\ [](wrote # {} => shown /\ save = <<"y">> /\ WroteJson)
    /\ [](pc = "exited" => choice = <<"4">>)
    /\ [][/\ (shown' /\ ~shown) => (pc = "compute" /\ proj' = proj /\ got' = got)
          /\ (pc = "menu" /\ choice' \notin {<<"1">>, <<"2">>, <<"3">>, <<"4">>})
                 => (pc' \in {"menu", "crashed"} /\ req' = req /\ ~shown' /\ wrote' = {})
          /\ (WroteJson' /\ ~WroteJson) => (pc = "save_project" /\ shown /\ save = <<"y">>)
          /\ (WroteCsv' /\ ~WroteCsv) => (pc = "save_csv" /\ WroteJson)
          /\ pc = "save_project" => pc' \in {"save_csv", "menu"}
          /\ pc = "save_csv" => pc' = "menu"
          /\ pc' = "exited" => (pc = "menu" /\ choice' = <<"4">>)
          /\ pc \in {"exited", "crashed"} => pc' = pc]_vars

C10_Witness ==
    /\ pc = "menu"
    /\ got = "load" /\ choice = <<"2">>
    /\ proj = sample_project
    /\ shown /\ req.food.units = 21
    /\ save = <<"y">>
    /\ wrote = {<<time_stamp, ".json">>, <<time_stamp, "_summary.csv">>}

=============================================================================
